---------------------------- MODULE Spec2Model ----------------------------
(***************************************************************************)
(* Model of the classification and normalization pipeline of               *)
(* src/Globant_final.py (process_data and the functions it calls).         *)
(*                                                                         *)
(* A string is a sequence of one-character strings, so that the regular    *)
(* expressions, lower(), trim() and split() of the source are modelled by  *)
(* what they do to the characters.  A data frame is a sequence of records  *)
(* (rows); a column added by withColumn is a field added to every row.     *)
(* An SQL NULL is the empty tuple NULL; a nullable integer or boolean v is *)
(* the one-element tuple <<v>>.  The nullable string column category uses  *)
(* the sentinel NullStr, which is not one of the category labels.          *)
(*                                                                         *)
(* The pipeline is one process; pc is its position in process_data.        *)
(* Not modelled, because no checked property reads them: count_nulls,      *)
(* normalize_review_count, assign_subcategories, classify_color, and the   *)
(* projection of the rows into the four CSV relations.                     *)
(***************************************************************************)
EXTENDS Integers, Sequences, FiniteSets, TLC

VARIABLES
    pc,             \* position in process_data
    df,             \* the data frame: a sequence of rows
    k,              \* index of the next rule in assign_category's loop (0 outside it)
    unusual_sizes   \* the size_group values shown by the final diagnostic

vars == <<pc, df, k, unusual_sizes>>

NULL == <<>>
NullStr == "<null>"

---------------------------------------------------------------------------
(* Characters *)

DigitSeq == <<"0", "1", "2", "3", "4", "5", "6", "7", "8", "9">>
UpperSeq == <<"A", "B", "C", "D", "E", "F", "G", "H", "I", "J", "K", "L", "M",
              "N", "O", "P", "Q", "R", "S", "T", "U", "V", "W", "X", "Y", "Z">>
LowerSeq == <<"a", "b", "c", "d", "e", "f", "g", "h", "i", "j", "k", "l", "m",
              "n", "o", "p", "q", "r", "s", "t", "u", "v", "w", "x", "y", "z">>

Range(s) == { s[i] : i \in DOMAIN s }

DigitSet == Range(DigitSeq)
UpperSet == Range(UpperSeq)
LowerSet == Range(LowerSeq)

IsDigit(c) == c \in DigitSet
IsUpper(c) == c \in UpperSet
IsLower(c) == c \in LowerSet
IsAlnum(c) == IsDigit(c) \/ IsUpper(c) \/ IsLower(c)
\* \w of java.util.regex: [a-zA-Z_0-9]
IsWordChar(c) == IsAlnum(c) \/ c = "_"
\* \s of java.util.regex: [ \t\n\x0B\f\r]
IsSpace(c) == c \in {" ", "\t", "\n", "\f", "\r"}

DigitValues == [c \in DigitSet |-> (CHOOSE i \in DOMAIN DigitSeq : DigitSeq[i] = c) - 1]
DigitVal(c) == DigitValues[c]

LowerOfUpper ==
    [c \in UpperSet |-> LowerSeq[CHOOSE i \in DOMAIN UpperSeq : UpperSeq[i] = c]]
LowerChar(c) == IF IsUpper(c) THEN LowerOfUpper[c] ELSE c

\* lower() of Spark SQL and str.lower() of Python, on the characters modelled
Lower(s) == [i \in DOMAIN s |-> LowerChar(s[i])]

\* withColumn: the row r with the columns of new added (or replaced)
WithColumns(r, new) == new @@ r

\* trim() of Spark SQL: removes the space characters (ASCII 32) at both ends
RECURSIVE LTrim(_)
LTrim(s) == IF s # <<>> /\ Head(s) = " " THEN LTrim(Tail(s)) ELSE s
RECURSIVE RTrim(_)
RTrim(s) ==
    IF s # <<>> /\ s[Len(s)] = " " THEN RTrim(SubSeq(s, 1, Len(s) - 1)) ELSE s
Trim(s) == RTrim(LTrim(s))

---------------------------------------------------------------------------
(* ensure_array_columns: split(col, ",\\s*") *)

RECURSIVE SkipSpaces(_, _)
SkipSpaces(s, i) ==
    IF i <= Len(s) /\ IsSpace(s[i]) THEN SkipSpaces(s, i + 1) ELSE i

\* String.split(",\\s*", -1): every comma, with the whitespace after it, ends
\* an entry; leading and trailing empty entries are kept.
RECURSIVE SplitFrom(_, _, _)
SplitFrom(s, i, cur) ==
    IF i > Len(s) THEN <<cur>>
    ELSE IF s[i] = ","
         THEN <<cur>> \o SplitFrom(s, SkipSpaces(s, i + 1), <<>>)
         ELSE SplitFrom(s, i + 1, Append(cur, s[i]))

Split(s) == SplitFrom(s, 1, <<>>)

ensure_array_columns(r) ==
    [r EXCEPT !.total_sizes = Split(r.total_sizes),
              !.available_size = Split(r.available_size)]

---------------------------------------------------------------------------
(* normalize_and_explode_sizes *)

NotSpace(c) == ~IsSpace(c)

\* regexp_replace(size, '\(.*?\)', ''): each "(" with a later ")" is removed
\* together with everything up to the first such ")"
RECURSIVE StripParens(_)
StripParens(s) ==
    IF s = <<>> THEN <<>>
    ELSE IF Head(s) = "(" /\ \E j \in 2..Len(s) : s[j] = ")"
         THEN LET j == CHOOSE j \in 2..Len(s) :
                           s[j] = ")" /\ \A h \in 2..(j - 1) : s[h] # ")"
              IN  StripParens(SubSeq(s, j + 1, Len(s)))
         ELSE <<Head(s)>> \o StripParens(Tail(s))

\* lines 90-92: the three cleaning steps applied to an exploded entry
CleanSize(s) == SelectSeq(StripParens(Trim(SelectSeq(s, NotSpace))), IsAlnum)

\* regexp_extract(size, "(\d+)", 1): the first maximal run of digits, or ""
RECURSIVE TakeDigits(_)
TakeDigits(s) ==
    IF s # <<>> /\ IsDigit(Head(s)) THEN <<Head(s)>> \o TakeDigits(Tail(s))
    ELSE <<>>
RECURSIVE FirstDigitRun(_)
FirstDigitRun(s) ==
    IF s = <<>> THEN <<>>
    ELSE IF IsDigit(Head(s)) THEN TakeDigits(s)
    ELSE FirstDigitRun(Tail(s))

\* regexp_extract(size, "([a-zA-Z]+)$", 1): the run of letters that ends the
\* string, or ""
RECURSIVE TrailingLetters(_)
TrailingLetters(s) ==
    IF s # <<>> /\ (IsUpper(s[Len(s)]) \/ IsLower(s[Len(s)]))
    THEN Append(TrailingLetters(SubSeq(s, 1, Len(s) - 1)), s[Len(s)])
    ELSE <<>>

RECURSIVE StripZeros(_)
StripZeros(s) ==
    IF Len(s) > 1 /\ Head(s) = "0" THEN StripZeros(Tail(s)) ELSE s

RECURSIVE DecValue(_)
DecValue(s) ==
    IF s = <<>> THEN 0
    ELSE 10 * DecValue(SubSeq(s, 1, Len(s) - 1)) + DigitVal(s[Len(s)])

\* the decimal digits of the largest IntegerType value, 2^31 - 1
IntMaxDigits == <<"2", "1", "4", "7", "4", "8", "3", "6", "4", "7">>

\* a <= b for two digit strings of the same length
RECURSIVE DecLeq(_, _)
DecLeq(a, b) ==
    IF a = <<>> THEN TRUE
    ELSE IF DigitVal(Head(a)) # DigitVal(Head(b))
         THEN DigitVal(Head(a)) < DigitVal(Head(b))
         ELSE DecLeq(Tail(a), Tail(b))

\* cast(IntegerType()) of a digit string: NULL for "" and for a value that
\* does not fit 32 bits
CastInt(s) ==
    LET d == StripZeros(s) IN
    IF s = <<>> THEN NULL
    ELSE IF Len(d) > Len(IntMaxDigits) THEN NULL
    ELSE IF Len(d) = Len(IntMaxDigits) /\ ~DecLeq(d, IntMaxDigits) THEN NULL
    ELSE <<DecValue(d)>>

\* Column.between(lo, hi) on a nullable integer: NULL on NULL
Between(n, lo, hi) == IF n = NULL THEN NULL ELSE <<lo <= n[1] /\ n[1] <= hi>>

\* rlike("(?i)^[...]+$") for a character class given by its lower-case
\* members: one or more characters, each in the class whatever its case
RlikeClassPlus(s, class) ==
    <<s # <<>> /\ \A i \in DOMAIN s : LowerChar(s[i]) \in class>>

\* [SMLXLXXL], [6789] and [A-Z] under (?i)
InSMLX == {"s", "m", "l", "x"}
In6789 == {"6", "7", "8", "9"}
InAZ == LowerSet

\* variant of size_conditions with the Small range one too wide
size_conditions_wide_small(size, size_number) ==
    << <<Between(size_number, 30, 33), "Small">>,
       <<Between(size_number, 34, 36), "Medium">>,
       <<Between(size_number, 38, 40), "Large">>,
       <<Between(size_number, 42, 46), "Extra Large">>,
       <<RlikeClassPlus(size, InSMLX), "Not Bras">>,
       <<RlikeClassPlus(size, In6789), "Not Bras">>,
       <<RlikeClassPlus(size, InAZ), "Not Bras">> >>

\* lines 102-113: the conditions in list order, each with its group
size_conditions(size, size_number) ==
    << <<Between(size_number, 30, 32), "Small">>,
       <<Between(size_number, 34, 36), "Medium">>,
       <<Between(size_number, 38, 40), "Large">>,
       <<Between(size_number, 42, 46), "Extra Large">>,
       <<RlikeClassPlus(size, InSMLX), "Not Bras">>,
       <<RlikeClassPlus(size, In6789), "Not Bras">>,
       <<RlikeClassPlus(size, InAZ), "Not Bras">> >>

\* coalesce(when(c1, g1), ..., when(cn, gn), lit(dflt)): when() without
\* otherwise() is NULL unless its condition is true, and coalesce takes the
\* first value that is not NULL
RECURSIVE Coalesce(_, _)
Coalesce(conds, dflt) ==
    IF conds = <<>> THEN dflt
    ELSE IF Head(conds)[1] = <<TRUE>> THEN Head(conds)[2]
    ELSE Coalesce(Tail(conds), dflt)

SizeGroup(size, size_number) ==
    Coalesce(size_conditions(size, size_number), "Unknown")

\* array_contains(available_size, size) under when(..., 1).otherwise(0)
IsAvailable(available_size, size) ==
    IF \E i \in DOMAIN available_size : available_size[i] = size THEN 1 ELSE 0

\* the row of one exploded entry of r.total_sizes
SizeRow(r, entry) ==
    LET size == CleanSize(entry)
        size_number == CastInt(FirstDigitRun(size))
    IN  WithColumns(r, [size |-> size,
                        size_number |-> size_number,
                        size_letter |-> TrailingLetters(size),
                        is_available |-> IsAvailable(r.available_size, size),
                        size_group |-> SizeGroup(size, size_number)])

\* explode(): one row per entry of total_sizes, in order
Explode(r) == [j \in DOMAIN r.total_sizes |-> SizeRow(r, r.total_sizes[j])]

RECURSIVE normalize_and_explode_sizes(_)
normalize_and_explode_sizes(d) ==
    IF d = <<>> THEN <<>>
    ELSE Explode(Head(d)) \o normalize_and_explode_sizes(Tail(d))

---------------------------------------------------------------------------
(* calculate_initial_metrics *)

RECURSIVE Pow2(_)
Pow2(n) == IF n = 0 THEN 1 ELSE 2 * Pow2(n - 1)

\* variant of RoundHundredths that truncates
RoundHundredths_truncating(a, t) == (100 * a) \div t

\* round(a / t, 2) in hundredths.  Spark rounds the shortest decimal form of
\* the double HALF_UP, which for a quotient of two small integers is the
\* half-up rounding of the exact quotient.
RoundHundredths(a, t) == (200 * a + t) \div (2 * t)

\* 24-bit significand of the binary32 format
FloatBits == 24

\* the least significand of a normal binary32 value, and the bound above
\* the greatest
FloatMinM == Pow2(FloatBits - 1)
FloatMaxM == Pow2(FloatBits)

\* the least s with p * 2^s >= 100 * FloatMinM, p >= 1
RECURSIVE FloatShift(_, _)
FloatShift(x, s) ==
    IF x >= 100 * FloatMinM THEN s ELSE FloatShift(2 * x, s + 1)

\* cast(FloatType()) of the double p / 100: the nearest binary32 value,
\* as significand m and exponent e (the value is m * 2^e), zero as m = 0
ToFloat(p) ==
    IF p = 0 THEN [m |-> 0, e |-> 0]
    ELSE LET s == FloatShift(p, 0)
             m == (p * Pow2(s) + 50) \div 100
         IN  IF m = FloatMaxM THEN [m |-> FloatMinM, e |-> 1 - s]
             ELSE [m |-> m, e |-> -s]

\* the double literals the float column is compared with, on the binary32
\* grid of their binade: 0.3 lies strictly between m * 2^e and (m + 1) * 2^e,
\* 0.5 is m * 2^e exactly
Double03 == [m |-> 10066329, e |-> -25, exact |-> FALSE]
Double05 == [m |-> 8388608, e |-> -24, exact |-> TRUE]

\* f < d for a non-negative float f widened to double
FloatLt(f, d) ==
    \/ f.m = 0
    \/ f.e < d.e
    \/ f.e = d.e /\ (IF d.exact THEN f.m < d.m ELSE f.m <= d.m)

\* lines 127-129
Status(pct) ==
    IF FloatLt(pct, Double03) THEN "Sanction"
    ELSE IF FloatLt(pct, Double05) THEN "Warning"
    ELSE "OK"

\* variant of WarningSanction that does not look at the size group
WarningSanction_any_group(size_group, pct) ==
    IF FloatLt(pct, Double05) /\ ~FloatLt(pct, Double03) THEN "Warning"
    ELSE IF FloatLt(pct, Double03) THEN "Sanction"
    ELSE ""

\* lines 130-133
WarningSanction(size_group, pct) ==
    IF size_group = "Extra Large" /\ FloatLt(pct, Double05) /\ ~FloatLt(pct, Double03)
    THEN "Warning"
    ELSE IF size_group = "Extra Large" /\ FloatLt(pct, Double03)
    THEN "Sanction"
    ELSE ""

\* F.size() of the two arrays; Split never returns an empty array, so the
\* divisor is at least 1
MetricsRow(r) ==
    LET total_offered_items == Len(r.total_sizes)
        available_items == Len(r.available_size)
        pct == ToFloat(RoundHundredths(available_items, total_offered_items))
    IN  WithColumns(r, [total_offered_items |-> total_offered_items,
                        available_items |-> available_items,
                        availability_percentage |-> pct,
                        status |-> Status(pct),
                        Warning_Sanction |-> WarningSanction(r.size_group, pct)])

calculate_initial_metrics(d) == [i \in DOMAIN d |-> MetricsRow(d[i])]

---------------------------------------------------------------------------
(* Brand mapping: lines 11-45 and 250-254 *)

\* lines 11-36: <<key, brand_name, sub_brand_name>>
brand_mapping ==
    << << <<"v", "i", "c", "t", "o", "r", "i", "a", "'", "s", " ", "s", "e", "c", "r", "e", "t">>,
          <<"V", "i", "c", "t", "o", "r", "i", "a", "'", "s", " ", "S", "e", "c", "r", "e", "t">>, <<>> >>,
       << <<"v", "i", "c", "t", "o", "r", "i", "a", "'", "s", " ", "s", "e", "c", "r", "e", "t", " ", "p", "i", "n", "k">>,
          <<"V", "i", "c", "t", "o", "r", "i", "a", "'", "s", " ", "S", "e", "c", "r", "e", "t">>, <<"P", "i", "n", "k">> >>,
       << <<"u", "s", " ", "t", "o", "p", "s", "h", "o", "p">>,
          <<"T", "o", "p", "s", "h", "o", "p">>, <<"U", "s", " ", "T", "o", "p", " ", "S", "h", "o", "p">> >>,
       << <<"c", "a", "l", "v", "i", "n", " ", "k", "l", "e", "i", "n">>,
          <<"C", "a", "l", "v", "i", "n", " ", "K", "l", "e", "i", "n">>, <<>> >>,
       << <<"h", "a", "n", "k", "y", " ", "p", "a", "n", "k", "y">>,
          <<"H", "a", "n", "k", "y", " ", "P", "a", "n", "k", "y">>, <<>> >>,
       << <<"b", ".", "t", "e", "m", "p", "t", "'", "d", " ", "b", "y", " ", "w", "a", "c", "o", "a", "l">>,
          <<"W", "a", "c", "o", "a", "l">>, <<"b", ".", "t", "e", "m", "p", "t", "'", "d">> >>,
       << <<"w", "a", "c", "o", "a", "l">>,
          <<"W", "a", "c", "o", "a", "l">>, <<>> >>,
       << <<"v", "a", "n", "i", "t", "y", " ", "f", "a", "i", "r">>,
          <<"V", "a", "n", "i", "t", "y", " ", "F", "a", "i", "r">>, <<>> >>,
       << <<"c", "a", "l", "v", "i", "n", " ", "k", "l", "e", "i", "n", " ", "m", "o", "d", "e", "r", "n", " ", "c", "o", "t", "t", "o", "n">>,
          <<"C", "a", "l", "v", "i", "n", " ", "K", "l", "e", "i", "n">>, <<"M", "o", "d", "e", "r", "n", " ", "C", "o", "t", "t", "o", "n">> >>,
       << <<"c", "a", "l", "v", "i", "n", " ", "k", "l", "e", "i", "n", " ", "p", "e", "r", "f", "o", "r", "m", "a", "n", "c", "e">>,
          <<"C", "a", "l", "v", "i", "n", " ", "K", "l", "e", "i", "n">>, <<"P", "e", "r", "f", "o", "r", "m", "a", "n", "c", "e">> >>,
       << <<"b", ".", "t", "e", "m", "p", "t", "'", "d">>,
          <<"W", "a", "c", "o", "a", "l">>, <<"b", ".", "t", "e", "m", "p", "t", "'", "d">> >>,
       << <<"n", "o", "r", "d", "s", "t", "r", "o", "m", " ", "l", "i", "n", "g", "e", "r", "i", "e">>,
          <<"N", "o", "r", "d", "s", "t", "r", "o", "m">>, <<>> >>,
       << <<"h", "a", "n", "k", "y", "p", "a", "n", "k", "y">>,
          <<"H", "a", "n", "k", "y", " ", "P", "a", "n", "k", "y">>, <<>> >>,
       << <<"c", "a", "l", "v", "i", "n", "-", "k", "l", "e", "i", "n">>,
          <<"C", "a", "l", "v", "i", "n", " ", "K", "l", "e", "i", "n">>, <<>> >>,
       << <<"b", "-", "t", "e", "m", "p", "t", "d">>,
          <<"W", "a", "c", "o", "a", "l">>, <<"b", "-", "t", "e", "m", "p", "t", "d">> >>,
       << <<"h", "a", "n", "k", "y", "-", "p", "a", "n", "k", "y">>,
          <<"H", "a", "n", "k", "y", " ", "P", "a", "n", "k", "y">>, <<>> >>,
       << <<"v", "i", "c", "t", "o", "r", "i", "a", "s", "-", "s", "e", "c", "r", "e", "t">>,
          <<"V", "i", "c", "t", "o", "r", "i", "a", "'", "s", " ", "S", "e", "c", "r", "e", "t">>, <<>> >>,
       << <<"s">>,
          <<"W", "a", "c", "o", "a", "l">>, <<>> >>,
       << <<"r", "e", "f", "=", "w", "_", "b", "l", "_", "s", "l", "_", "l", "_", "b", "_", "a", "p", "_", "w", "e", "b", "_", "2", "6", "0", "3", "4", "2", "6", "0", "1", "1", "?", "i", "e", "=", "u", "t", "f", "8", "&", "n", "o", "d", "e", "=", "2", "6", "0", "3", "4", "2", "6", "0", "1", "1", "&", "f", "i", "e", "l", "d", "-", "l", "b", "r", "_", "b", "r", "a", "n", "d", "s", "_", "b", "r", "o", "w", "s", "e", "-", "b", "i", "n", "=", "w", "a", "c", "o", "a", "l">>,
          <<"W", "a", "c", "o", "a", "l">>, <<>> >>,
       << <<"r", "e", "f", "=", "w", "_", "b", "l", "_", "s", "l", "_", "l", "_", "a", "p", "_", "a", "p", "_", "w", "e", "b", "_", "2", "5", "8", "6", "6", "8", "5", "0", "1", "1", "?", "i", "e", "=", "u", "t", "f", "8", "&", "n", "o", "d", "e", "=", "2", "5", "8", "6", "6", "8", "5", "0", "1", "1", "&", "f", "i", "e", "l", "d", "-", "l", "b", "r", "_", "b", "r", "a", "n", "d", "s", "_", "b", "r", "o", "w", "s", "e", "-", "b", "i", "n", "=", "c", "a", "l", "v", "i", "n", "+", "k", "l", "e", "i", "n">>,
          <<"C", "a", "l", "v", "i", "n", " ", "K", "l", "e", "i", "n">>, <<>> >>,
       << <<"r", "e", "f", "=", "w", "_", "b", "l", "_", "s", "l", "_", "l", "_", "b", "_", "a", "p", "_", "w", "e", "b", "_", "2", "5", "8", "6", "4", "5", "1", "0", "1", "1", "?", "i", "e", "=", "u", "t", "f", "8", "&", "n", "o", "d", "e", "=", "2", "5", "8", "6", "4", "5", "1", "0", "1", "1", "&", "f", "i", "e", "l", "d", "-", "l", "b", "r", "_", "b", "r", "a", "n", "d", "s", "_", "b", "r", "o", "w", "s", "e", "-", "b", "i", "n", "=", "b", ".", "t", "e", "m", "p", "t", "%", "2", "7", "d">>,
          <<"W", "a", "c", "o", "a", "l">>, <<"b", "-", "t", "e", "m", "p", "t", "d">> >>,
       << <<"l", "u", "c", "k", "y", "-", "b", "r", "a", "n", "d">>,
          <<"L", "u", "c", "k", "y", " ", "B", "r", "a", "n", "d">>, <<"L", "u", "c", "k", "y", "-", "B", "r", "a", "n", "d">> >>,
       << <<"a", "e", "r", "i", "e">>,
          <<"A", "m", "e", "r", "i", "c", "a", "n", " ", "E", "a", "g", "l", "e">>, <<"A", "e", "r", "i", "e">> >>,
       << <<"a", "e", "o">>,
          <<"A", "m", "e", "r", "i", "c", "a", "n", " ", "E", "a", "g", "l", "e">>, <<"A", "e", "o">> >> >>


\* lines 39-45
map_brand(brand) ==
    LET b == Lower(brand) IN
    IF \E i \in DOMAIN brand_mapping : brand_mapping[i][1] = b
    THEN LET i == CHOOSE i \in DOMAIN brand_mapping : brand_mapping[i][1] = b
         IN  [brand_name |-> brand_mapping[i][2],
              sub_brand_name |-> brand_mapping[i][3]]
    ELSE [brand_name |-> b, sub_brand_name |-> <<>>]

\* variant of BrandRow without trim()
BrandRow_no_trim(r) ==
    LET brand_struct == map_brand(Lower(r.brand_name))
    IN  WithColumns(r, [brand_name |-> brand_struct.brand_name,
                        sub_brand_name |-> brand_struct.sub_brand_name])

\* lines 250-254: lower(trim(brand_name)), then the UDF
BrandRow(r) ==
    LET brand_struct == map_brand(Lower(Trim(r.brand_name)))
    IN  WithColumns(r, [brand_name |-> brand_struct.brand_name,
                        sub_brand_name |-> brand_struct.sub_brand_name])

---------------------------------------------------------------------------
(* assign_category *)

\* lines 145-154.  A rule r"(?i)\b(w1|...|wn)\b" is the set of its
\* alternatives; the last rule, r".*", matches any string (any = TRUE).
category_patterns ==
    << [any |-> FALSE, label |-> "Bras", words |->
          { <<"b", "r", "a">>,
            <<"p", "u", "s", "h", "-", "u", "p">>,
            <<"p", "l", "u", "n", "g", "e">>,
            <<"d", "e", "m", "i">>,
            <<"b", "a", "l", "c", "o", "n", "e", "t", "t", "e">>,
            <<"m", "u", "l", "t", "i", "-", "w", "a", "y">>,
            <<"E", "m", "b", "e", "l", "l", "i", "s", "h", "e", "d", " ", "U", "n", "d", "e", "r", "w", "i", "r", "e", " ", "B", "r", "a">>,
            <<"b", "r", "a", "l", "e", "t", "t", "e">> }],
       [any |-> FALSE, label |-> "Tops", words |->
          { <<"b", "a", "n", "d", "e", "a", "u">>,
            <<"t", "r", "i", "a", "n", "g", "l", "e", " ", "b", "r", "a", "l", "e", "t", "t", "e">>,
            <<"b", "r", "a", "l", "e", "t", "t", "e">> }],
       [any |-> FALSE, label |-> "Panties", words |->
          { <<"h", "i", "p", "s", "t", "e", "r">>,
            <<"c", "h", "e", "e", "k", "y">>,
            <<"c", "h", "e", "e", "k", "s", "t", "e", "r">>,
            <<"b", "o", "y", "s", "h", "o", "r", "t">>,
            <<"t", "h", "o", "n", "g">>,
            <<"h", "i", "p", "h", "u", "g", "g", "e", "r">>,
            <<"b", "o", "y", "b", "r", "i", "e", "f">>,
            <<"v", "-", "s", "t", "r", "i", "n", "g">>,
            <<"s", "h", "o", "r", "t", "i", "e">>,
            <<"b", "r", "i", "e", "f">>,
            <<"p", "a", "n", "t", "y">>,
            <<"h", "i", "p", "k", "i", "n", "i">>,
            <<"c", "h", "e", "e", "k", "i", "n", "i">>,
            <<"t", "a", "n", "g", "a">>,
            <<"h", "i", "g", "h", " ", "c", "u", "t", " ", "b", "r", "i", "e", "f">>,
            <<"h", "i", "g", "h", " ", "c", "u", "t", " ", "b", "r", "i", "e", "f", "s">> }],
       [any |-> FALSE, label |-> "Bikinis", words |->
          { <<"b", "i", "k", "i", "n", "i">> }],
       [any |-> FALSE, label |-> "Bikinis", words |->
          { <<"v", "i", "k", "i", "n", "i">>,
            <<"v", " ", "k", "i", "n", "i">> }],
       [any |-> FALSE, label |-> "Sleepwear and Lingerie", words |->
          { <<"s", "l", "i", "p">>,
            <<"c", "h", "e", "m", "i", "s", "e">>,
            <<"b", "a", "b", "y", "d", "o", "l", "l">>,
            <<"t", "e", "d", "d", "y">>,
            <<"r", "o", "m", "p", "e", "r">>,
            <<"c", "a", "m", "i", "s", "o", "l", "e">>,
            <<"b", "o", "d", "y", "s", "u", "i", "t">>,
            <<"b", "u", "s", "t", "i", "e", "r">>,
            <<"g", "a", "r", "t", "e", "r", " ", "b", "e", "l", "t">> }],
       [any |-> FALSE, label |-> "Tops Sport", words |->
          { <<"l", "e", "g", "g", "i", "n", "g">>,
            <<"s", "h", "o", "r", "t">>,
            <<"j", "o", "g", "g", "e", "r">>,
            <<"t", "a", "n", "k">>,
            <<"t", "o", "p">>,
            <<"h", "o", "o", "d", "i", "e">>,
            <<"t", "e", "e">>,
            <<"s", "h", "i", "r", "t">>,
            <<"c", "a", "m", "i", "s", "o", "l", "e">>,
            <<"c", "r", "o", "p">>,
            <<"s", "p", "o", "r", "t", "s", " ", "b", "r", "a">>,
            <<"s", "h", "o", "r", "t", "s">>,
            <<"t", "a", "n", "k", " ", "t", "o", "p">> }],
       [any |-> TRUE, words |-> {}, label |-> "Other"] >>


\* \b before position i of s: exactly one of s[i-1], s[i] is a word character
WordBoundary(s, i) ==
    (i > 1 /\ IsWordChar(s[i - 1])) # (i <= Len(s) /\ IsWordChar(s[i]))

\* rlike(r"(?i)\b(w1|...|wn)\b"): some alternative occurs in s, whatever the
\* case of its letters, between two word boundaries
RlikeWords(s, words) ==
    LET ls == Lower(s) IN
    \E w \in words : \E i \in 1..(Len(s) - Len(w) + 1) :
        /\ WordBoundary(s, i)
        /\ WordBoundary(s, i + Len(w))
        /\ SubSeq(ls, i, i + Len(w) - 1) = Lower(w)

Rlike(s, pattern) == pattern.any \/ RlikeWords(s, pattern.words)

\* variant of CategoryRule without the isNull() guard: the last match wins
CategoryRule_overwriting(r, rule) ==
    [r EXCEPT !.category =
        IF Rlike(r.product_name, rule) THEN rule.label ELSE r.category]

\* lines 157-160: one withColumn of the loop, for one rule
CategoryRule(r, rule) ==
    [r EXCEPT !.category =
        IF r.category = NullStr /\ Rlike(r.product_name, rule)
        THEN rule.label ELSE r.category]

---------------------------------------------------------------------------
(* The exclusion filter, the surrogate keys and the diagnostic *)

\* lines 137-138
exclude_sizes ==
    { <<"x", "s">>, <<"s">>, <<"m">>, <<"l">>,
      <<"x", "l">>, <<"x", "x", "l">>, <<"x", "l", "a", "r", "g", "e">>, <<"6">>,
      <<"7">>, <<"8">>, <<"9">>, <<"1", "0">>,
      <<"2">>, <<"4">>, <<"1", "2">>, <<"a">>,
      <<"b">>, <<"c">>, <<"d">>, <<"d", "d">>,
      <<"d", "d", "d">>, <<"x", "s", "m", "a", "l", "l">>, <<"1", "4">>, <<"x", "x", "s", "m", "a", "l", "l">>,
      <<"a", "a", "a">>, <<"b", "c">> }

\* variant of KeptByFilter that matches the size whatever its case
KeptByFilter_any_case(r) ==
    /\ ~(r.category = "Bras" /\ Lower(r.size) \in exclude_sizes)
    /\ ~(r.category = "Bralette" /\ Lower(r.size) \in exclude_sizes)

\* lines 261-264: the rows the filter keeps (category is not NULL here)
KeptByFilter(r) ==
    /\ ~(r.category = "Bras" /\ r.size \in exclude_sizes)
    /\ ~(r.category = "Bralette" /\ r.size \in exclude_sizes)

\* variant of RowNumber that counts from 0, as monotonically_increasing_id()
RowNumber_from_zero(d, i) == i - 1

\* lines 270-273: row_number() over the single window ordering, three times
RowNumber(d, i) == i

SurrogateKeys(d) ==
    [i \in DOMAIN d |-> WithColumns(d[i], [product_id |-> RowNumber(d, i),
                                           retailer_id |-> RowNumber(d, i),
                                           size_id |-> RowNumber(d, i)])]

\* variant of predefined_groups without "Unknown"
predefined_groups_without_unknown ==
    {"Small", "Medium", "Large", "Extra Large",
     "XXS", "XS", "S", "M", "L", "XL", "XXL", "true",
     "XLarge", "2426Plus", "1XPlus", "1XApparel",
     "2XApparel", "3XApparel", "false", "OK"}

\* lines 329-332
predefined_groups ==
    {"Small", "Medium", "Large", "Extra Large", "Unknown",
     "XXS", "XS", "S", "M", "L", "XL", "XXL", "true",
     "XLarge", "2426Plus", "1XPlus", "1XApparel",
     "2XApparel", "3XApparel", "false", "OK"}

\* lines 334-335
UnusualSizes(d) == { d[i].size_group : i \in DOMAIN d } \ predefined_groups

---------------------------------------------------------------------------
(* process_data, one action per step *)

Injective(f) == \A i, j \in DOMAIN f : f[i] = f[j] => i = j

\* line 235, initial_data_clean: dropDuplicates() keeps one row of each
\* value, in an order the shuffle decides
InitialDataClean ==
    /\ pc = "loaded"
    /\ \E d \in [1..Cardinality(Range(df)) -> Range(df)] :
          /\ Injective(d)
          /\ df' = d
    /\ pc' = "deduped"
    /\ UNCHANGED <<k, unusual_sizes>>

\* line 238
EnsureArrayColumns ==
    /\ pc = "deduped"
    /\ df' = [i \in DOMAIN df |-> ensure_array_columns(df[i])]
    /\ pc' = "arrays"
    /\ UNCHANGED <<k, unusual_sizes>>

\* line 241
NormalizeAndExplodeSizes ==
    /\ pc = "arrays"
    /\ df' = normalize_and_explode_sizes(df)
    /\ pc' = "normalized"
    /\ UNCHANGED <<k, unusual_sizes>>

\* line 244
CalculateInitialMetrics ==
    /\ pc = "normalized"
    /\ df' = calculate_initial_metrics(df)
    /\ pc' = "metrics"
    /\ UNCHANGED <<k, unusual_sizes>>

\* lines 250-254
MapBrands ==
    /\ pc = "metrics"
    /\ df' = [i \in DOMAIN df |-> BrandRow(df[i])]
    /\ pc' = "branded"
    /\ UNCHANGED <<k, unusual_sizes>>

\* lines 142-143: the input has no category column, so a NULL one is added
AssignCategoryStart ==
    /\ pc = "branded"
    /\ df' = [i \in DOMAIN df |-> WithColumns(df[i], [category |-> NullStr])]
    /\ k' = 1
    /\ pc' = "assign_category"
    /\ UNCHANGED unusual_sizes

\* lines 156-160: one iteration of the loop over category_patterns
AssignCategoryRule ==
    /\ pc = "assign_category"
    /\ df' = [i \in DOMAIN df |-> CategoryRule(df[i], category_patterns[k])]
    /\ IF k < Len(category_patterns)
       THEN k' = k + 1 /\ pc' = pc
       ELSE k' = 0 /\ pc' = "categorized"
    /\ UNCHANGED unusual_sizes

\* lines 261-264
ExclusionFilter ==
    /\ pc = "categorized"
    /\ df' = SelectSeq(df, KeptByFilter)
    /\ pc' = "filtered"
    /\ UNCHANGED <<k, unusual_sizes>>

\* lines 270-273
AssignSurrogateKeys ==
    /\ pc = "filtered"
    /\ df' = SurrogateKeys(df)
    /\ pc' = "keyed"
    /\ UNCHANGED <<k, unusual_sizes>>

\* lines 334-337
ReportUnusualSizes ==
    /\ pc = "keyed"
    /\ unusual_sizes' = UnusualSizes(df)
    /\ pc' = "done"
    /\ UNCHANGED <<k, df>>

Next ==
    \/ InitialDataClean
    \/ EnsureArrayColumns
    \/ NormalizeAndExplodeSizes
    \/ CalculateInitialMetrics
    \/ MapBrands
    \/ AssignCategoryStart
    \/ AssignCategoryRule
    \/ ExclusionFilter
    \/ AssignSurrogateKeys
    \/ ReportUnusualSizes

---------------------------------------------------------------------------
(* Input batches.  Every specification runs the same pipeline; each draws  *)
(* the loaded batch from the inputs its properties are about.              *)

MaxLen == 3
MaxItems == 10
MaxBrandLen == 3
MaxProducts == 2

Strings(alphabet, n) == UNION { [1..m -> alphabet] : m \in 0..n }

Product(name, brand, total, avail) ==
    [product_name |-> name, brand_name |-> brand,
     total_sizes |-> total, available_size |-> avail]

Loaded(batch) ==
    /\ pc = "loaded"
    /\ df = batch
    /\ k = 0
    /\ unusual_sizes = {}

DefaultName == <<"C", "o", "t", "t", "o", "n", " ", "T", "h", "o", "n", "g">>
DefaultBrand == <<"W", "a", "c", "o", "a", "l">>

\* size lists: every string of at most MaxLen of these characters, with
\* the same string as the list of available sizes
SizeAlphabet ==
    {"0", "3", "4", "6", "S", "B", "b", " ", "-", "(", ")", ","}

InitSizes ==
    \E s \in Strings(SizeAlphabet, MaxLen) :
        Loaded(<<Product(DefaultName, DefaultBrand, s, s)>>)

SpecSizes == InitSizes /\ [][Next]_vars

\* metrics: n entries offered and j entries available, of one size
RECURSIVE Repeat(_, _)
Repeat(entry, n) ==
    IF n = 1 THEN entry ELSE entry \o <<",">> \o Repeat(entry, n - 1)

MetricEntries == {<<"4", "2", "D">>, <<"3", "4", "B">>, <<"S">>}

InitMetrics ==
    \E e \in MetricEntries : \E n \in 1..MaxItems : \E j \in 1..MaxItems :
        Loaded(<<Product(DefaultName, DefaultBrand, Repeat(e, n), Repeat(e, j))>>)

SpecMetrics == InitMetrics /\ [][Next]_vars

\* brands: every string of at most MaxBrandLen of these characters, and
\* some brands of the catalog
BrandAlphabet == {"a", "e", "o", "A", "s", "S", "b", " "}

BrandExamples ==
    {<<"B", ".", "T", "E", "M", "P", "T", "'", "D">>, <<" ", "C", "a", "l", "v", "i", "n", " ", "K", "l", "e", "i", "n", " ">>, <<"H", "a", "n", "k", "y", "P", "a", "n", "k", "y">>, <<"A", "E", "R", "I", "E">>,
     <<"u", "n", "k", "n", "o", "w", "n", " ", "b", "r", "a", "n", "d", " ", "x", "y", "z">>, <<"U", "n", "k", "n", "o", "w", "n", " ", "B", "r", "a", "n", "d", " ", "X", "Y", "Z">>, <<" ", "M", "a", "i", "d", "e", "n", "f", "o", "r", "m">>}

InitBrand ==
    \E b \in Strings(BrandAlphabet, MaxBrandLen) \cup BrandExamples :
        Loaded(<<Product(DefaultName, b, <<"3", "4", "B", ",", "S">>, <<"3", "4", "B">>)>>)

SpecBrand == InitBrand /\ [][Next]_vars

\* product names: one or two of these words, joined by a space, by a
\* hyphen or by nothing
Vocabulary ==
    {<<"b", "r", "a">>, <<"B", "r", "a", "l", "e", "t", "t", "e">>,
     <<"b", "r", "a", "l", "e", "t", "t", "e", "s">>,
     <<"b", "a", "n", "d", "e", "a", "u">>, <<"t", "h", "o", "n", "g">>,
     <<"b", "i", "k", "i", "n", "i">>, <<"v", "i", "k", "i", "n", "i">>,
     <<"t", "e", "d", "d", "y">>, <<"c", "a", "m", "i", "s", "o", "l", "e">>,
     <<"l", "e", "g", "g", "i", "n", "g">>, <<"d", "r", "e", "s", "s">>}

Joints == {<<" ">>, <<"-">>, <<>>}

Names ==
    Vocabulary \cup
    { a \o j \o w : a \in Vocabulary, j \in Joints, w \in Vocabulary }

SizeLists == {<<"s">>, <<"S", ",", "3", "4", "B">>, <<"x", "l", ",", " ", "3", "6", "C", ",", "z", "z", "9">>, <<"7", ",", "D", "D">>}

InitCategory ==
    \E n \in Names : \E s \in SizeLists :
        Loaded(<<Product(n, DefaultBrand, s, s)>>)

SpecCategory == InitCategory /\ [][Next]_vars

\* batches of at most MaxProducts products, duplicates included
BatchProducts ==
    { Product(n, DefaultBrand, s, <<"s">>) :
        n \in {<<"L", "a", "c", "e", " ", "B", "r", "a">>, <<"T", "h", "o", "n", "g">>},
        s \in {<<"s">>, <<"s", ",", "3", "4", "B">>, <<"z", "z", "9", ",", "M">>,
                <<"M", ",", "M">>} }

InitBatch ==
    \E m \in 1..MaxProducts : \E batch \in [1..m -> BatchProducts] :
        Loaded(batch)

SpecBatch == InitBatch /\ [][Next]_vars

Spec == SpecBatch

---------------------------------------------------------------------------
(* Properties *)

HasSizeColumns == pc \notin {"loaded", "deduped", "arrays"}
HasMetrics == HasSizeColumns /\ pc # "normalized"
HasCategory == pc \in {"categorized", "filtered", "keyed", "done"}
HasKeys == pc \in {"keyed", "done"}

OnlyChars(s, set) == s # <<>> /\ \A i \in DOMAIN s : s[i] \in set

NumberIn(n, lo, hi) == n # NULL /\ lo <= n[1] /\ n[1] <= hi

\* the size group the rule list gives a row, the last rule being "one or
\* more characters of letters"
RuleListGroup(r, letters) ==
    IF NumberIn(r.size_number, 30, 32) THEN "Small"
    ELSE IF NumberIn(r.size_number, 34, 36) THEN "Medium"
    ELSE IF NumberIn(r.size_number, 38, 40) THEN "Large"
    ELSE IF NumberIn(r.size_number, 42, 46) THEN "Extra Large"
    ELSE IF OnlyChars(r.size, {"S", "M", "L", "X", "s", "m", "l", "x"}) THEN "Not Bras"
    ELSE IF OnlyChars(r.size, {"6", "7", "8", "9"}) THEN "Not Bras"
    ELSE IF OnlyChars(r.size, letters) THEN "Not Bras"
    ELSE "Unknown"

EarliestRule(name) ==
    CHOOSE j \in DOMAIN category_patterns :
        /\ Rlike(name, category_patterns[j])
        /\ \A h \in 1..(j - 1) : ~Rlike(name, category_patterns[h])

HasWord(name, w) == RlikeWords(name, {w})

\* C2: after assign_category every row's category is the label of the
\* earliest rule matching product_name ("Other" when only the catch-all
\* matches); a name with the words "bra" and "legging" is Bras, a name with
\* the word "bralette" is Bras; and no step of the loop changes a category
\* that is already set.
C2_FirstMatchWins ==
    /\ [](HasCategory =>
            \A i \in DOMAIN df :
                /\ df[i].category =
                     category_patterns[EarliestRule(df[i].product_name)].label
                /\ (\A j \in 1..(Len(category_patterns) - 1) :
                        ~Rlike(df[i].product_name, category_patterns[j]))
                     => df[i].category = "Other"
                /\ (HasWord(df[i].product_name, <<"b", "r", "a">>)
                      /\ HasWord(df[i].product_name, <<"l", "e", "g", "g", "i", "n", "g">>))
                     => df[i].category = "Bras"
                /\ HasWord(df[i].product_name, <<"b", "r", "a", "l", "e", "t", "t", "e">>)
                     => df[i].category = "Bras")
    /\ [][pc = "assign_category" =>
            \A i \in DOMAIN df :
                df[i].category # NullStr => df'[i].category = df[i].category]_vars

\* a name matching both the Bras rule and the Tops Sport rule came out Bras
C2_Witness ==
    /\ HasCategory
    /\ \E i \in DOMAIN df :
          /\ Rlike(df[i].product_name, category_patterns[1])
          /\ Rlike(df[i].product_name, category_patterns[7])
          /\ df[i].category = "Bras"

\* the rows C3 says the filter removes
BraLikeWithExcludedSize(r) ==
    r.category \in {"Bras", "Bralette"} /\ r.size \in exclude_sizes

NotBraLikeWithExcludedSize(r) == ~BraLikeWithExcludedSize(r)

\* C3: the exclusion filter removes exactly the rows whose category is Bras
\* or Bralette and whose size is in exclude_sizes, and keeps every other row
\* unchanged and in order; afterwards no row is (Bras, "s").
C3_ExclusionFilter ==
    /\ [][pc = "categorized" => df' = SelectSeq(df, NotBraLikeWithExcludedSize)]_vars
    /\ [](pc \in {"filtered", "keyed", "done"} =>
            \A i \in DOMAIN df : ~(df[i].category = "Bras" /\ df[i].size = <<"s">>))

\* a Bras product lost a row to the filter and kept another
C3_Witness ==
    /\ pc = "filtered"
    /\ df # <<>>
    /\ df[1].category = "Bras"
    /\ Len(df) < Len(df[1].total_sizes)

\* the float f in hundredths, rounded to the nearest
Hundredths(f) ==
    IF f.m = 0 THEN 0
    ELSE LET x == 100 * f.m
             d == Pow2(-f.e)
         IN  IF 2 * (x % d) >= d THEN (x \div d) + 1 ELSE x \div d

\* p is a / t in hundredths, rounded to the nearest, halves up
IsRounded(p, a, t) == (2 * p - 1) * t <= 200 * a /\ 200 * a < (2 * p + 1) * t

\* C4: with total_offered_items >= 1, availability_percentage is
\* available_items / total_offered_items rounded to 2 decimals, and status
\* is Sanction below 0.30, Warning from 0.30 to below 0.50, OK otherwise;
\* 3 of 10 is 0.30 and Warning, and 0.50 is OK.
C4_StatusThresholds ==
    HasMetrics =>
        \A i \in DOMAIN df :
            LET r == df[i]
                p == Hundredths(r.availability_percentage)
            IN  r.total_offered_items >= 1 =>
                  /\ IsRounded(p, r.available_items, r.total_offered_items)
                  /\ r.status = IF p < 30 THEN "Sanction"
                                ELSE IF p < 50 THEN "Warning" ELSE "OK"
                  /\ (r.total_offered_items = 10 /\ r.available_items = 3)
                       => (p = 30 /\ r.status = "Warning")
                  /\ p = 50 => r.status = "OK"

\* 3 of 10 sizes available: 0.30 and Warning
C4_Witness ==
    /\ HasMetrics
    /\ \E i \in DOMAIN df :
          /\ df[i].total_offered_items = 10
          /\ df[i].available_items = 3
          /\ df[i].status = "Warning"

\* C5: Warning_Sanction is Sanction below 0.30 and Warning from 0.30 to below
\* 0.50 when size_group is Extra Large, and empty in every other case; so it
\* is empty or equal to status.
C5_WarningSanction ==
    HasMetrics =>
        \A i \in DOMAIN df :
            LET r == df[i]
                p == Hundredths(r.availability_percentage)
            IN  /\ r.Warning_Sanction =
                     IF r.size_group # "Extra Large" THEN ""
                     ELSE IF p < 30 THEN "Sanction"
                     ELSE IF p < 50 THEN "Warning" ELSE ""
                /\ r.Warning_Sanction \in {"", r.status}

\* an Extra Large row at exactly 0.30 carries Warning
C5_Witness ==
    /\ HasMetrics
    /\ \E i \in DOMAIN df :
          /\ df[i].size_group = "Extra Large"
          /\ Hundredths(df[i].availability_percentage) = 30
          /\ df[i].Warning_Sanction = "Warning"

\* C6: every row has available_items <= total_offered_items, and so an
\* availability_percentage in [0, 1].
C6_AvailableAtMostOffered ==
    HasMetrics =>
        \A i \in DOMAIN df :
            /\ df[i].available_items <= df[i].total_offered_items
            /\ Hundredths(df[i].availability_percentage) \in 0..100

Column(d, F(_)) == { F(d[i]) : i \in DOMAIN d }

ProductId(r) == r.product_id
RetailerId(r) == r.retailer_id
SizeId(r) == r.size_id

\* C7: once the keys are assigned to the N retained rows, product_id takes
\* every value of 1..N exactly once, and so do retailer_id and size_id.
C7_DenseKeys ==
    HasKeys =>
        /\ Column(df, ProductId) = 1..Len(df)
        /\ Column(df, RetailerId) = 1..Len(df)
        /\ Column(df, SizeId) = 1..Len(df)
        /\ \A i, j \in DOMAIN df :
              (\/ df[i].product_id = df[j].product_id
               \/ df[i].retailer_id = df[j].retailer_id
               \/ df[i].size_id = df[j].size_id) => i = j

\* keys were assigned to three or more retained rows, two of them equal in
\* every other column, after the filter had removed a row
C7_Witness ==
    /\ HasKeys
    /\ Len(df) >= 3
    /\ \E i, j \in DOMAIN df : i # j /\ df[i].size = df[j].size
                                     /\ df[i].product_name = df[j].product_name
    /\ \E i \in DOMAIN df : df[i].category = "Bras"
                            /\ Len(df[i].total_sizes) = 2
                            /\ \A j \in DOMAIN df :
                                  df[j].category = "Bras" => df[j].size = df[i].size

CleanedAvailable(r) == { CleanSize(r.available_size[j]) : j \in DOMAIN r.available_size }

\* C8: is_available is true exactly when the cleaned size is one of the
\* cleaned entries of the product's available_size list.
C8_CleanedMembership ==
    HasSizeColumns =>
        \A i \in DOMAIN df :
            (df[i].is_available = 1) <=> (df[i].size \in CleanedAvailable(df[i]))

BrandKeys == { brand_mapping[i][1] : i \in DOMAIN brand_mapping }

BrandEntry(key) ==
    brand_mapping[CHOOSE i \in DOMAIN brand_mapping : brand_mapping[i][1] = key]

\* the brand step maps every row as C9 says, an unmapped brand coming out as
\* passthrough(raw brand, its lower-cased trimmed form)
BrandStepAgrees(Passthrough(_, _)) ==
    pc = "metrics" =>
        /\ Len(df') = Len(df)
        /\ \A i \in DOMAIN df :
              LET raw == df[i].brand_name
                  key == Lower(Trim(raw))
              IN  IF key \in BrandKeys
                  THEN /\ df'[i].brand_name = BrandEntry(key)[2]
                       /\ df'[i].sub_brand_name = BrandEntry(key)[3]
                  ELSE /\ df'[i].brand_name = Passthrough(raw, key)
                       /\ df'[i].sub_brand_name = <<>>

Unchanged(raw, key) == raw
Normalized(raw, key) == key

\* C9 as stated: a brand whose lower-cased, trimmed form is a key of
\* brand_mapping gets the table's pair; any other brand is returned
\* UNCHANGED with an empty sub_brand.
C9_UnmappedUnchanged == [][BrandStepAgrees(Unchanged)]_vars

\* C9 amended: a brand whose lower-cased, trimmed form is a key of
\* brand_mapping gets the table's pair; any other brand is returned
\* lower-cased and trimmed, with an empty sub_brand.
C9_BrandCanonical == [][BrandStepAgrees(Normalized)]_vars

\* an unmapped brand came out lower-cased, with an empty sub_brand
C9_Witness ==
    /\ pc = "branded"
    /\ \E i \in DOMAIN df :
          /\ df[i].brand_name = <<"u", "n", "k", "n", "o", "w", "n", " ", "b", "r", "a", "n", "d", " ", "x", "y", "z">>
          /\ df[i].sub_brand_name = <<>>

\* C10: the diagnostic shows no value but "Not Bras", and shows it exactly
\* when a retained row has size_group "Not Bras".
C10_DiagnosticOnlyNotBras ==
    pc = "done" =>
        /\ unusual_sizes \subseteq {"Not Bras"}
        /\ unusual_sizes = {"Not Bras"}
             <=> \E i \in DOMAIN df : df[i].size_group = "Not Bras"

\* the diagnostic showed "Not Bras" for a retained row after the filter had
\* removed another row of the product
C10_Witness ==
    /\ pc = "done"
    /\ unusual_sizes = {"Not Bras"}
    /\ df # <<>>
    /\ Len(df) < Len(df[1].total_sizes)

===========================================================================
